---- MODULE Spec2Model ----
(***************************************************************************)
(* The heartbeat / generator / worker / logger pipeline of                 *)
(* steady-state-standard: four actors joined by three bounded channels,    *)
(* with the shutdown-veto protocol of is_running.                          *)
(*                                                                         *)
(* Each actor is a small program counter machine; one action is one step   *)
(* of the actor between two points where another actor can be observed     *)
(* (a channel operation, an await, the is_running check).                  *)
(***************************************************************************)
EXTENDS Integers, Sequences, FiniteSets, TLC

\* ---------------------------------------------------------------- bounds
MaxCap == 2        \* channel capacities explored: 1..MaxCap
MaxBeats == 1      \* beat limits explored: 0..MaxBeats
MaxPeriods == 2    \* timer periods that elapse in one run
MaxValue == 3      \* generator values produced before a shutdown request
MaxPreTicks == 2   \* ticks pre-loaded in the worker unit test scenarios
MaxClassify == 45  \* values 0..MaxClassify are classified

VARIABLES
    cap,           \* capacity of every channel (one channel_builder builds all three)
    beats,         \* args.beats
    shutdown,      \* the graph's liveliness is StopRequested
    periods,       \* timer periods elapsed so far
    hb_ch, hb_closed,     \* heartbeat_tx -> heartbeat_rx
    gen_ch, gen_closed,   \* generator_tx -> generator_rx
    log_ch, log_closed,   \* worker_tx -> worker_rx (logger_tx / fizz_buzz_rx)
    hb_pc, hb_count, hb_timer, hb_fullAtPeriod,
    gen_pc, gen_value,
    wk_pc, wk_clean, wk_avail, wk_items, wk_item, wk_gotTick,
    lg_pc,
    \* history (not read by any actor)
    hb_sent,       \* ticks accepted by the heartbeat channel, in order
    gen_sent,      \* values accepted by the generator channel, in order
    ticks_taken,   \* ticks Worker took
    wk_taken,      \* values Worker took from the generator channel
    logged,        \* messages Logger recorded
    gen_blocked,   \* a send_async of Generator has come back Blocked
    wk_cut,        \* a Worker batch was cut short by the vacant slots of its output
    lateSend,      \* actors that tried a send on their own closed output
    panicked,      \* actors whose assert!/expect failed (they are restarted)
    wk_vetoed,     \* the is_running check that began Worker's wait vetoed a shutdown request
    \* the supervisor of the graph
    slots,         \* actor slots whose SteadyState holds a value
    crashed        \* <<actor, counter>>: the actor crashed with that counter value

chans == <<hb_ch, hb_closed, gen_ch, gen_closed, log_ch, log_closed>>
hbv   == <<hb_pc, hb_count, hb_timer, hb_fullAtPeriod, hb_sent>>
genv  == <<gen_pc, gen_value, gen_sent, gen_blocked>>
wkv   == <<wk_pc, wk_clean, wk_avail, wk_items, wk_item, wk_gotTick, ticks_taken, wk_taken,
          wk_cut, wk_vetoed>>
lgv   == <<lg_pc, logged>>
sup   == <<slots, crashed>>
vars  == <<cap, beats, shutdown, periods, chans, hbv, genv, wkv, lgv, lateSend, panicked, sup>>

\* ------------------------------------------------------- pure functions

\* (mutant) the arms of the match in another order: multiples of 3 first
ClassifyFizzFirst(value) ==
    IF value % 3 = 0 THEN [tag |-> "Fizz", v |-> 0]
    ELSE IF value % 5 = 0 THEN [tag |-> "Buzz", v |-> 0]
    ELSE IF value % 3 = 0 /\ value % 5 = 0 THEN [tag |-> "FizzBuzz", v |-> 0]
    ELSE [tag |-> "Value", v |-> value]

\* FizzBuzzMessage::new
Classify(value) ==
    IF value % 3 = 0 /\ value % 5 = 0 THEN [tag |-> "FizzBuzz", v |-> 0]
    ELSE IF value % 3 = 0 THEN [tag |-> "Fizz", v |-> 0]
    ELSE IF value % 5 = 0 THEN [tag |-> "Buzz", v |-> 0]
    ELSE [tag |-> "Value", v |-> value]

\* (mutant) the vacant slots of the output are not looked at
MinFirst(a, b) == a

\* usize::min
Min(a, b) == IF a < b THEN a ELSE b

\* channel queries: avail_units, vacant_units, is_closed_and_empty
AvailUnits(ch) == Len(ch)
VacantUnits(ch) == cap - Len(ch)
IsClosedAndEmpty(ch, closed) == closed /\ Len(ch) = 0

\* the sequence 0, 1, ..., k-1
Iota(k) == [i \in 1..k |-> i - 1]
MapClassify(s) == [i \in 1..Len(s) |-> Classify(s[i])]
IsPrefix(s, t) == Len(s) <= Len(t) /\ \A i \in 1..Len(s) : s[i] = t[i]
\* Option<u64> as a sequence of at most one value
NoItem == <<>>
Some(x) == <<x>>

\* ------------------------------------------------------------------ Init

InitCommon ==
    /\ shutdown = FALSE
    /\ periods = 0
    /\ log_ch = <<>> /\ log_closed = FALSE
    /\ hb_count = 0 /\ hb_timer = FALSE /\ hb_fullAtPeriod = FALSE
    /\ gen_value = 0
    /\ wk_pc = "loop" /\ wk_clean = TRUE /\ wk_avail = 0 /\ wk_items = 0
    /\ wk_item = NoItem /\ wk_gotTick = FALSE
    /\ ticks_taken = <<>> /\ wk_taken = <<>> /\ logged = <<>>
    /\ gen_blocked = FALSE /\ wk_cut = FALSE /\ wk_vetoed = FALSE
    /\ lateSend = {} /\ panicked = {}
    /\ crashed = {}

\* build_graph + graph.start(): all four actors at the head of their loops
Init ==
    /\ InitCommon
    /\ cap \in 1..MaxCap
    /\ beats \in 0..MaxBeats
    /\ hb_ch = <<>> /\ hb_closed = FALSE
    /\ gen_ch = <<>> /\ gen_closed = FALSE
    /\ hb_pc = "loop" /\ gen_pc = "loop" /\ lg_pc = "loop"
    /\ slots = {"hb", "gen"}        \* both states locked and initialised
    /\ hb_sent = <<>> /\ gen_sent = <<>>

\* ------------------------------------------------------------- Heartbeat

\* (mutant) the closure marks the channel closed but the loop goes on
HbIsRunningNoExit ==
    /\ hb_pc = "loop"
    /\ IF shutdown
         THEN /\ hb_closed' = TRUE
              /\ hb_pc' = "wait"
         ELSE /\ hb_pc' = "wait"
              /\ UNCHANGED hb_closed
    /\ hb_timer' = FALSE /\ hb_fullAtPeriod' = FALSE
    /\ UNCHANGED <<sup, cap, beats, shutdown, periods, hb_ch, gen_ch, gen_closed, log_ch, log_closed,
                   hb_count, hb_sent, genv, wkv, lgv, lateSend, panicked>>

\* while actor.is_running(|| heartbeat_tx.mark_closed())
HbIsRunning ==
    /\ hb_pc = "loop"
    /\ IF shutdown
         THEN /\ hb_closed' = TRUE          \* mark_closed() returns true: the vote is in favour
              /\ hb_pc' = "done"
         ELSE /\ hb_pc' = "wait"
              /\ UNCHANGED hb_closed
    /\ hb_timer' = FALSE /\ hb_fullAtPeriod' = FALSE
    /\ UNCHANGED <<sup, cap, beats, shutdown, periods, hb_ch, gen_ch, gen_closed, log_ch, log_closed,
                   hb_count, hb_sent, genv, wkv, lgv, lateSend, panicked>>

\* actor.wait_periodic(rate) resolves: one period has elapsed
HbPeriodElapses ==
    /\ hb_pc = "wait" /\ ~hb_timer /\ ~shutdown
    /\ periods < MaxPeriods
    /\ periods' = periods + 1
    /\ hb_timer' = TRUE
    /\ hb_fullAtPeriod' = (VacantUnits(hb_ch) = 0)
    /\ UNCHANGED <<sup, cap, beats, shutdown, chans, hb_pc, hb_count, hb_sent,
                   genv, wkv, lgv, lateSend, panicked>>

\* (mutant) only the timer is awaited, not a vacant slot
HbAwaitNoVacancy ==
    /\ hb_pc = "wait"
    /\ hb_timer \/ shutdown
    /\ hb_pc' = "send"
    /\ UNCHANGED <<sup, cap, beats, shutdown, periods, chans, hb_count, hb_timer, hb_fullAtPeriod,
                   hb_sent, genv, wkv, lgv, lateSend, panicked>>

\* await_for_all!(wait_periodic, wait_vacant(1)) returns: both met, or a
\* shutdown request ended the waits early (the result is not looked at)
HbAwait ==
    /\ hb_pc = "wait"
    /\ (hb_timer /\ VacantUnits(hb_ch) >= 1) \/ shutdown
    /\ hb_pc' = "send"
    /\ UNCHANGED <<sup, cap, beats, shutdown, periods, chans, hb_count, hb_timer, hb_fullAtPeriod,
                   hb_sent, genv, wkv, lgv, lateSend, panicked>>

\* (mutant) the channel takes the tick whatever its fill
HbSendUnchecked ==
    /\ hb_pc = "send"
    /\ lateSend' = IF hb_closed THEN lateSend \cup {"hb"} ELSE lateSend
    /\ hb_ch' = Append(hb_ch, hb_count)
    /\ hb_sent' = Append(hb_sent, hb_count)
    /\ hb_count' = hb_count + 1
    /\ hb_pc' = "beats"
    /\ UNCHANGED <<sup, cap, beats, shutdown, periods, hb_closed, gen_ch, gen_closed, log_ch,
                   log_closed, hb_timer, hb_fullAtPeriod, genv, wkv, lgv, panicked>>

\* assert!(actor.try_send(&mut heartbeat_tx, state.count).is_sent()); state.count += 1
\* A failed assertion panics; the actor is restarted with the same state.
HbSend ==
    /\ hb_pc = "send"
    /\ lateSend' = IF hb_closed THEN lateSend \cup {"hb"} ELSE lateSend
    /\ IF VacantUnits(hb_ch) >= 1
         THEN /\ hb_ch' = Append(hb_ch, hb_count)
              /\ hb_sent' = Append(hb_sent, hb_count)
              /\ hb_count' = hb_count + 1
              /\ hb_pc' = "beats"
              /\ UNCHANGED panicked
         ELSE /\ panicked' = panicked \cup {"hb"}
              /\ hb_pc' = "loop"
              /\ UNCHANGED <<hb_ch, hb_sent, hb_count>>
    /\ UNCHANGED <<sup, cap, beats, shutdown, periods, hb_closed, gen_ch, gen_closed, log_ch,
                   log_closed, hb_timer, hb_fullAtPeriod, genv, wkv, lgv>>

\* if beats == state.count { actor.request_shutdown().await }
HbBeats ==
    /\ hb_pc = "beats"
    /\ shutdown' = (shutdown \/ beats = hb_count)
    /\ hb_pc' = "loop"
    /\ UNCHANGED <<sup, cap, beats, periods, chans, hb_count, hb_timer, hb_fullAtPeriod, hb_sent,
                   genv, wkv, lgv, lateSend, panicked>>

Heartbeat == HbIsRunning \/ HbPeriodElapses \/ HbAwait \/ HbSend \/ HbBeats

\* ------------------------------------------------------------- Generator

\* (mutant) the veto closure accepts without mark_closed()
GenIsRunningNoClose ==
    /\ gen_pc = "loop"
    /\ IF shutdown
         THEN /\ UNCHANGED gen_closed
              /\ gen_pc' = "done"
         ELSE /\ gen_pc' = "send"
              /\ UNCHANGED gen_closed
    /\ UNCHANGED <<sup, cap, beats, shutdown, periods, hb_ch, hb_closed, gen_ch, log_ch, log_closed,
                   hbv, gen_value, gen_sent, gen_blocked, wkv, lgv, lateSend, panicked>>

\* while cmd.is_running(|| generated.mark_closed())
GenIsRunning ==
    /\ gen_pc = "loop"
    /\ IF shutdown
         THEN /\ gen_closed' = TRUE
              /\ gen_pc' = "done"
         ELSE /\ gen_pc' = "send"
              /\ UNCHANGED gen_closed
    /\ UNCHANGED <<sup, cap, beats, shutdown, periods, hb_ch, hb_closed, gen_ch, log_ch, log_closed,
                   hbv, gen_value, gen_sent, gen_blocked, wkv, lgv, lateSend, panicked>>

\* the push of send_async that is accepted: SendOutcome::Success => state.value += 1
GenPush ==
    /\ gen_ch' = Append(gen_ch, gen_value)
    /\ gen_sent' = Append(gen_sent, gen_value)
    /\ gen_value' = gen_value + 1

\* cmd.send_async(.., SendSaturation::AwaitForRoom): the first try
GenSendAsync ==
    /\ gen_pc = "send"
    /\ gen_value < MaxValue \/ shutdown
    /\ lateSend' = IF gen_closed THEN lateSend \cup {"gen"} ELSE lateSend
    /\ IF VacantUnits(gen_ch) >= 1
         THEN /\ GenPush
              /\ gen_pc' = "loop"
         ELSE /\ gen_pc' = "room"
              /\ UNCHANGED <<gen_ch, gen_sent, gen_value>>
    /\ UNCHANGED <<sup, cap, beats, shutdown, periods, hb_ch, hb_closed, gen_closed, log_ch,
                   log_closed, hbv, gen_blocked, wkv, lgv, panicked>>

\* ... the channel was full and room has come: Success
GenRoom ==
    /\ gen_pc = "room"
    /\ VacantUnits(gen_ch) >= 1
    /\ lateSend' = IF gen_closed THEN lateSend \cup {"gen"} ELSE lateSend
    /\ GenPush
    /\ gen_pc' = "loop"
    /\ UNCHANGED <<sup, cap, beats, shutdown, periods, hb_ch, hb_closed, gen_closed, log_ch,
                   log_closed, hbv, gen_blocked, wkv, lgv, panicked>>

\* (mutant) the counter advances although the send came back Blocked
GenBlockedAdvances ==
    /\ gen_pc = "room"
    /\ shutdown
    /\ gen_pc' = "loop"
    /\ gen_value' = gen_value + 1
    /\ gen_blocked' = TRUE
    /\ UNCHANGED <<sup, cap, beats, shutdown, periods, chans, hbv, gen_sent, wkv, lgv,
                   lateSend, panicked>>

\* ... the channel was full and a shutdown request ended the wait: Blocked(_value) => {}
GenBlocked ==
    /\ gen_pc = "room"
    /\ shutdown
    /\ gen_pc' = "loop"
    /\ gen_blocked' = TRUE
    /\ UNCHANGED <<sup, cap, beats, shutdown, periods, chans, hbv, gen_value, gen_sent, wkv, lgv,
                   lateSend, panicked>>

Generator == GenIsRunning \/ GenSendAsync \/ GenRoom \/ GenBlocked

\* ---------------------------------------------------------------- Worker

\* (mutant) the generator input is left out of the veto predicate
WkVetoHeartbeatOnly ==
    /\ IsClosedAndEmpty(hb_ch, hb_closed)
    /\ TRUE

\* (mutant) the closure looks at the generator channel only
WkVetoGeneratorOnly ==
    /\ TRUE
    /\ IsClosedAndEmpty(gen_ch, gen_closed)

\* while actor.is_running(|| heartbeat_rx.is_closed_and_empty()
\*                           && generator_rx.is_closed_and_empty()
\*                           && logger_tx.mark_closed())
WkVeto ==
    /\ IsClosedAndEmpty(hb_ch, hb_closed)
    /\ IsClosedAndEmpty(gen_ch, gen_closed)

\* (mutant) mark_closed() comes first in the closure: it runs at every evaluation
WkIsRunningEagerClose ==
    /\ wk_pc = "loop"
    /\ IF shutdown
         THEN /\ log_closed' = TRUE
              /\ wk_pc' = IF WkVeto THEN "done" ELSE "wait"
         ELSE /\ wk_pc' = "wait"
              /\ UNCHANGED log_closed
    /\ wk_clean' = TRUE /\ wk_gotTick' = FALSE
    /\ wk_vetoed' = (shutdown /\ ~WkVeto)
    /\ UNCHANGED <<wk_cut, sup, cap, beats, shutdown, periods, hb_ch, hb_closed, gen_ch,
                   gen_closed, log_ch, hbv, genv, wk_avail, wk_items, wk_item,
                   ticks_taken, wk_taken, lgv, lateSend, panicked>>

WkIsRunning ==
    /\ wk_pc = "loop"
    /\ IF shutdown /\ WkVeto
         THEN /\ log_closed' = TRUE         \* the last conjunct: mark_closed() returns true
              /\ wk_pc' = "done"
         ELSE /\ wk_pc' = "wait"
              /\ UNCHANGED log_closed
    /\ wk_clean' = TRUE /\ wk_gotTick' = FALSE    \* the locals of the last iteration are gone
    /\ wk_vetoed' = (shutdown /\ ~WkVeto)
    /\ UNCHANGED <<wk_cut, sup, cap, beats, shutdown, periods, hb_ch, hb_closed, gen_ch, gen_closed,
                   log_ch, hbv, genv, wk_avail, wk_items, wk_item,
                   ticks_taken, wk_taken, lgv, lateSend, panicked>>

\* let clean = await_for_all!(wait_avail(heartbeat_rx,1), wait_avail(generator_rx,1),
\*                            wait_vacant(logger_tx,1))
\* clean when all three are met; not clean when a shutdown request (or a closed
\* input that cannot supply the item) ended a wait early.
\* (mutant) the tick is not one of the awaited conditions
WkAllMetNoTick == AvailUnits(gen_ch) >= 1 /\ VacantUnits(log_ch) >= 1

WkAllMet == AvailUnits(hb_ch) >= 1 /\ AvailUnits(gen_ch) >= 1 /\ VacantUnits(log_ch) >= 1

\* (mutant) a wait ended by a shutdown request is reported clean
WkAwaitAlwaysClean ==
    /\ wk_pc = "wait"
    /\ WkAllMet \/ shutdown \/ hb_closed \/ gen_closed
    /\ wk_clean' = TRUE
    /\ wk_pc' = "take"
    /\ wk_vetoed' = FALSE
    /\ UNCHANGED <<wk_cut, sup, cap, beats, shutdown, periods, chans, hbv, genv, wk_avail,
                   wk_items, wk_item, wk_gotTick, ticks_taken, wk_taken, lgv, lateSend, panicked>>

\* (mutant) the wait also comes back not clean with no shutdown request
WkAwaitSpurious ==
    /\ wk_pc = "wait"
    /\ \/ WkAllMet /\ wk_clean' = TRUE
       \/ wk_clean' = FALSE
    /\ wk_pc' = "take"
    /\ wk_vetoed' = FALSE
    /\ UNCHANGED <<wk_cut, sup, cap, beats, shutdown, periods, chans, hbv, genv, wk_avail,
                   wk_items, wk_item, wk_gotTick, ticks_taken, wk_taken, lgv, lateSend, panicked>>

WkAwait ==
    /\ wk_pc = "wait"
    /\ \/ WkAllMet /\ wk_clean' = TRUE
       \/ (shutdown \/ hb_closed \/ gen_closed) /\ wk_clean' = FALSE
    /\ wk_pc' = "take"
    /\ wk_vetoed' = FALSE
    /\ UNCHANGED <<wk_cut, sup, cap, beats, shutdown, periods, chans, hbv, genv, wk_avail, wk_items,
                   wk_item, wk_gotTick, ticks_taken, wk_taken, lgv, lateSend, panicked>>

\* (mutant) work is done only on a tick: "|| !clean" is missing
WkTakeTickOnly ==
    /\ wk_pc = "take"
    /\ IF Len(hb_ch) >= 1
         THEN /\ hb_ch' = Tail(hb_ch)
              /\ ticks_taken' = Append(ticks_taken, Head(hb_ch))
              /\ wk_gotTick' = TRUE
              /\ wk_pc' = "avail"
         ELSE /\ UNCHANGED <<hb_ch, ticks_taken>>
              /\ wk_gotTick' = FALSE
              /\ wk_pc' = "loop"
    /\ UNCHANGED <<wk_vetoed, wk_cut, sup, cap, beats, shutdown, periods, hb_closed, gen_ch,
                   gen_closed, log_ch, log_closed, hbv, genv, wk_clean, wk_avail, wk_items,
                   wk_item, wk_taken, lgv, lateSend, panicked>>

\* if actor.try_take(&mut heartbeat_rx).is_some() || !clean
WkTakeTick ==
    /\ wk_pc = "take"
    /\ IF Len(hb_ch) >= 1
         THEN /\ hb_ch' = Tail(hb_ch)
              /\ ticks_taken' = Append(ticks_taken, Head(hb_ch))
              /\ wk_gotTick' = TRUE
              /\ wk_pc' = "avail"
         ELSE /\ UNCHANGED <<hb_ch, ticks_taken>>
              /\ wk_gotTick' = FALSE
              /\ wk_pc' = IF ~wk_clean THEN "avail" ELSE "loop"
    /\ UNCHANGED <<wk_vetoed, wk_cut, sup, cap, beats, shutdown, periods, hb_closed, gen_ch,
                   gen_closed, log_ch, log_closed, hbv, genv, wk_clean, wk_avail, wk_items,
                   wk_item, wk_taken, lgv, lateSend, panicked>>

\* actor.avail_units(&mut generator_rx)
WkAvail ==
    /\ wk_pc = "avail"
    /\ wk_avail' = AvailUnits(gen_ch)
    /\ wk_pc' = "vacant"
    /\ UNCHANGED <<wk_vetoed, wk_cut, sup, cap, beats, shutdown, periods, chans, hbv, genv, wk_clean, wk_items,
                   wk_item, wk_gotTick, ticks_taken, wk_taken, lgv, lateSend, panicked>>

\* (mutant) the capacity of the output is taken for its vacant slots
WkVacantCapacity ==
    /\ wk_pc = "vacant"
    /\ wk_items' = Min(wk_avail, cap)
    /\ wk_avail' = 0
    /\ wk_clean' = TRUE
    /\ wk_cut' = (wk_cut \/ wk_avail > cap)
    /\ wk_pc' = "batch"
    /\ UNCHANGED <<wk_vetoed, sup, cap, beats, shutdown, periods, chans, hbv, genv,
                   wk_item, wk_gotTick, ticks_taken, wk_taken, lgv, lateSend, panicked>>

\* let mut items = (avail).min(actor.vacant_units(&mut logger_tx))
WkVacant ==
    /\ wk_pc = "vacant"
    /\ wk_items' = Min(wk_avail, VacantUnits(log_ch))
    /\ wk_avail' = 0                       \* the temporary is dead from here on
    /\ wk_clean' = TRUE                    \* and so is clean
    /\ wk_cut' = (wk_cut \/ wk_avail > VacantUnits(log_ch))
    /\ wk_pc' = "batch"
    /\ UNCHANGED <<wk_vetoed, sup, cap, beats, shutdown, periods, chans, hbv, genv,
                   wk_item, wk_gotTick, ticks_taken, wk_taken, lgv, lateSend, panicked>>

\* (mutant) the item is read but not removed from the generator channel
WkBatchTakePeek ==
    /\ wk_pc = "batch"
    /\ IF wk_items = 0
         THEN /\ wk_pc' = "loop"
              /\ UNCHANGED <<gen_ch, wk_item, wk_taken, panicked>>
         ELSE IF Len(gen_ch) >= 1
         THEN /\ UNCHANGED gen_ch
              /\ wk_item' = Some(Head(gen_ch))
              /\ wk_taken' = Append(wk_taken, Head(gen_ch))
              /\ wk_pc' = "forward"
              /\ UNCHANGED panicked
         ELSE /\ panicked' = panicked \cup {"wk"}
              /\ wk_pc' = "loop"
              /\ UNCHANGED <<gen_ch, wk_item, wk_taken>>
    /\ UNCHANGED <<wk_vetoed, wk_cut, sup, cap, beats, shutdown, periods, hb_ch, hb_closed, gen_closed, log_ch,
                   log_closed, hbv, genv, wk_clean, wk_avail, wk_items, wk_gotTick,
                   ticks_taken, lgv, lateSend>>

\* while items > 0 { let item = actor.try_take(&mut generator_rx).expect("internal error")
WkBatchTake ==
    /\ wk_pc = "batch"
    /\ IF wk_items = 0
         THEN /\ wk_pc' = "loop"
              /\ UNCHANGED <<gen_ch, wk_item, wk_taken, panicked>>
         ELSE IF Len(gen_ch) >= 1
         THEN /\ gen_ch' = Tail(gen_ch)
              /\ wk_item' = Some(Head(gen_ch))
              /\ wk_taken' = Append(wk_taken, Head(gen_ch))
              /\ wk_pc' = "forward"
              /\ UNCHANGED panicked
         ELSE /\ panicked' = panicked \cup {"wk"}
              /\ wk_pc' = "loop"
              /\ UNCHANGED <<gen_ch, wk_item, wk_taken>>
    /\ UNCHANGED <<wk_vetoed, wk_cut, sup, cap, beats, shutdown, periods, hb_ch, hb_closed, gen_closed, log_ch,
                   log_closed, hbv, genv, wk_clean, wk_avail, wk_items, wk_gotTick,
                   ticks_taken, lgv, lateSend>>

\* actor.try_send(&mut logger_tx, FizzBuzzMessage::new(item)).expect("internal error");
\* items -= 1 }
WkForward ==
    /\ wk_pc = "forward"
    /\ lateSend' = IF log_closed THEN lateSend \cup {"wk"} ELSE lateSend
    /\ IF VacantUnits(log_ch) >= 1
         THEN /\ log_ch' = Append(log_ch, Classify(wk_item[1]))
              /\ wk_items' = wk_items - 1
              /\ wk_pc' = "batch"
              /\ UNCHANGED panicked
         ELSE /\ panicked' = panicked \cup {"wk"}
              /\ wk_pc' = "loop"
              /\ UNCHANGED <<log_ch, wk_items>>
    /\ wk_item' = NoItem
    /\ UNCHANGED <<wk_vetoed, wk_cut, sup, cap, beats, shutdown, periods, hb_ch, hb_closed, gen_ch, gen_closed,
                   log_closed, hbv, genv, wk_clean, wk_avail, wk_gotTick, ticks_taken,
                   wk_taken, lgv>>

Worker == WkIsRunning \/ WkAwait \/ WkTakeTick \/ WkAvail \/ WkVacant \/ WkBatchTake \/ WkForward

\* ---------------------------------------------------------------- Logger

\* (mutant) Logger accepts every shutdown request: is_running(|| true)
LgIsRunningNoVeto ==
    /\ lg_pc = "loop"
    /\ lg_pc' = IF shutdown THEN "done" ELSE "wait"
    /\ UNCHANGED <<sup, cap, beats, shutdown, periods, chans, hbv, genv, wkv, logged,
                   lateSend, panicked>>

\* while actor.is_running(|| rx.is_closed_and_empty())
LgIsRunning ==
    /\ lg_pc = "loop"
    /\ lg_pc' = IF shutdown /\ IsClosedAndEmpty(log_ch, log_closed) THEN "done" ELSE "wait"
    /\ UNCHANGED <<sup, cap, beats, shutdown, periods, chans, hbv, genv, wkv, logged,
                   lateSend, panicked>>

\* await_for_all!(actor.wait_avail(&mut rx, 1))
LgAwait ==
    /\ lg_pc = "wait"
    /\ AvailUnits(log_ch) >= 1 \/ shutdown \/ log_closed
    /\ lg_pc' = "drain"
    /\ UNCHANGED <<sup, cap, beats, shutdown, periods, chans, hbv, genv, wkv, logged,
                   lateSend, panicked>>

\* (mutant) one message per wake-up: "if let" in place of "while let"
LgTakeOne ==
    /\ lg_pc = "drain"
    /\ IF Len(log_ch) >= 1
         THEN /\ log_ch' = Tail(log_ch)
              /\ logged' = Append(logged, Head(log_ch))
         ELSE UNCHANGED <<log_ch, logged>>
    /\ lg_pc' = "loop"
    /\ UNCHANGED <<sup, cap, beats, shutdown, periods, hb_ch, hb_closed, gen_ch, gen_closed,
                   log_closed, hbv, genv, wkv, lateSend, panicked>>

\* while let Some(msg) = actor.try_take(&mut rx) { info!("Msg {:?}", msg) }
LgTake ==
    /\ lg_pc = "drain"
    /\ IF Len(log_ch) >= 1
         THEN /\ log_ch' = Tail(log_ch)
              /\ logged' = Append(logged, Head(log_ch))
              /\ UNCHANGED lg_pc
         ELSE /\ lg_pc' = "loop"
              /\ UNCHANGED <<log_ch, logged>>
    /\ UNCHANGED <<sup, cap, beats, shutdown, periods, hb_ch, hb_closed, gen_ch, gen_closed,
                   log_closed, hbv, genv, wkv, lateSend, panicked>>

Logger == LgIsRunning \/ LgAwait \/ LgTake

\* ------------------------------------------------------ external controller

\* graph.request_shutdown()
ExternalShutdown ==
    /\ ~shutdown
    /\ shutdown' = TRUE
    /\ UNCHANGED <<sup, cap, beats, periods, chans, hbv, genv, wkv, lgv, lateSend, panicked>>

\* --------------------------------------------------------- specifications

Next == Heartbeat \/ Generator \/ Worker \/ Logger \/ ExternalShutdown

Spec == Init /\ [][Next]_vars

\* each actor runs on its own thread (SoloAct): an actor that can step does step
Fairness ==
    /\ WF_vars(Heartbeat) /\ WF_vars(Generator) /\ WF_vars(Worker) /\ WF_vars(Logger)

LiveSpec == Spec /\ Fairness

\* the pipeline left alone: only Heartbeat raises the shutdown request
NextSelf == Heartbeat \/ Generator \/ Worker \/ Logger

SpecSelf == Init /\ [][NextSelf]_vars

AllStopped == hb_pc = "done" /\ gen_pc = "done" /\ wk_pc = "done" /\ lg_pc = "done"

TypeOK ==
    /\ cap \in 1..(MaxCap + 6) /\ beats \in 0..MaxBeats
    /\ Len(hb_ch) <= cap /\ Len(gen_ch) <= cap /\ Len(log_ch) <= cap

\* the messages that have left the generator channel and not yet reached the log:
\* the item Worker holds between its take and its send
InFlight == MapClassify(wk_item)

\* ------------------------------------------------------------------ claims

\* C1: clean shutdown drains completely. Whenever all four actors have left
\* their loops, the three channels are empty and every value the generator
\* channel accepted was taken by Worker, classified and recorded by Logger.
C1_CleanShutdownDrains ==
    AllStopped =>
        /\ hb_ch = <<>> /\ gen_ch = <<>> /\ log_ch = <<>>
        /\ wk_taken = gen_sent
        /\ logged = MapClassify(gen_sent)

\* all stopped after an external request, with values that went through a
\* channel of capacity 1
C1_Witness ==
    AllStopped /\ Len(logged) >= 2 /\ cap = 1 /\ Len(hb_sent) < beats

\* C2: shutdown terminates. Under fair scheduling of the four actors a raised
\* shutdown request leads to the state where all four actors have stopped.
C2_ShutdownTerminates == shutdown ~> AllStopped

\* beats = 1: stopped after the single tick
C2_Witness ==
    AllStopped /\ beats = 1 /\ hb_sent = <<0>> /\ ticks_taken = <<0>>

\* C3: order and completeness of delivery. What Logger recorded, followed by
\* what is in the log channel, by the item Worker holds and by the generator
\* channel, is the classification of exactly what the generator channel
\* accepted: nothing skipped, duplicated or reordered.
C3_OrderAndCompleteness ==
    /\ logged \o log_ch \o InFlight \o MapClassify(gen_ch) = MapClassify(gen_sent)
    /\ IsPrefix(logged, MapClassify(Iota(gen_value)))

\* a batch was cut short by the output's vacant slots and the leftover items
\* have since been recorded
C3_Witness ==
    wk_cut /\ AllStopped /\ Len(logged) >= 3

NoDuplicate(q) == \A i, j \in 1..Len(q) : q[i] = q[j] => i = j

C5_HeartbeatSelfTerminates ==
    /\ hb_sent = Iota(Len(hb_sent))
    /\ Len(hb_sent) <= beats
    /\ (shutdown => Len(hb_sent) = beats)
    /\ (wk_pc = "done" => ticks_taken = Iota(beats))

\* the same for beat limits N >= 1 only
C5_SelfTerminatesFromOneBeat ==
    beats >= 1 => C5_HeartbeatSelfTerminates

\* C6: Generator sequence integrity. The values ever accepted by the generator
\* channel are 0, 1, ..., k-1 in that order and the counter is k; a send that
\* came back Blocked left the counter alone.
C6_GeneratorSequenceIntegrity ==
    /\ gen_sent = Iota(gen_value)
    /\ gen_value = Len(gen_sent)

\* a send has come back Blocked after some values were accepted
C6_Witness ==
    gen_blocked /\ gen_pc = "loop" /\ gen_value >= 2 /\ Len(gen_ch) = cap

\* C7: no send after close. No actor has tried a send on its own closed
\* output; an output is closed only after a shutdown request and only when its
\* producer has left its loop.
C7_NoSendAfterClose ==
    /\ lateSend = {}
    /\ (hb_closed => shutdown /\ hb_pc = "done")
    /\ (gen_closed => shutdown /\ gen_pc = "done")
    /\ (log_closed => shutdown /\ wk_pc = "done")

\* all three outputs closed after each producer has sent
C7_Witness ==
    /\ hb_closed /\ gen_closed /\ log_closed
    /\ Len(hb_sent) >= 1 /\ Len(gen_sent) >= 1 /\ Len(logged) + Len(log_ch) >= 1

\* C8: shutdown is advisory. An actor leaves its loop only in a step taken
\* after a shutdown request in which its veto predicate is true: for Worker
\* both inputs closed and empty and the output marked closed, for Logger the
\* input closed and empty, for the two sources the output marked closed.
Leaves(pc, pcNext) == pc # "done" /\ pcNext = "done"

C8_VetoProtocol ==
    [][ /\ Leaves(hb_pc, hb_pc') => shutdown /\ hb_closed'
        /\ Leaves(gen_pc, gen_pc') => shutdown /\ gen_closed'
        /\ Leaves(wk_pc, wk_pc') =>
              /\ shutdown
              /\ IsClosedAndEmpty(hb_ch, hb_closed)
              /\ IsClosedAndEmpty(gen_ch, gen_closed)
              /\ log_closed'
        /\ Leaves(lg_pc, lg_pc') => shutdown /\ IsClosedAndEmpty(log_ch, log_closed)
      ]_vars

\* Worker has vetoed a shutdown (it is back in its loop body after the
\* request) and Logger has stopped later
C8_Witness ==
    /\ shutdown /\ wk_pc = "forward" /\ lg_pc # "done"
    /\ hb_pc = "done" /\ gen_pc = "done"

\* C9 as stated: best-effort drop. The tick of a period that elapsed while the
\* heartbeat channel was full is dropped: the iteration of that period ends
\* without a tick entering the channel.
C9_TickDroppedWhenFull ==
    [][ (hb_pc = "send" /\ hb_fullAtPeriod /\ hb_pc' # "send") => hb_sent' = hb_sent ]_vars

\* C9 as the code has it: Heartbeat waits for room. Short of a shutdown request
\* the wait ends only with a vacant slot in the channel, and the iteration that
\* follows enqueues the tick of that period; the count never advances without
\* its tick entering the channel.
C9_HeartbeatWaitsForRoom ==
    [][ /\ (hb_pc = "wait" /\ hb_pc' = "send" /\ ~shutdown) =>
               hb_timer /\ VacantUnits(hb_ch) >= 1
        /\ (hb_pc = "send" /\ hb_pc' # "send" /\ ~shutdown) =>
               hb_ch' = Append(hb_ch, hb_count) /\ hb_count' = hb_count + 1
        /\ (hb_count' # hb_count) => hb_sent' = Append(hb_sent, hb_count)
      ]_vars

\* the tick of a period that found the channel full has been sent after the wait
C9_Witness ==
    hb_pc = "beats" /\ hb_fullAtPeriod /\ Len(hb_sent) >= 2 /\ ~shutdown

\* ------------------------------------------------- the Worker unit test

\* test_worker: only Worker runs; testing_send_all(.., true) has pre-loaded and
\* closed both inputs, and the test then calls graph.request_shutdown().
PreloadedValues ==
    UNION { [1..n -> 0..MaxValue] : n \in 0..MaxCap }

InitWT ==
    /\ InitCommon
    /\ beats = 0
    /\ hb_pc = "absent" /\ gen_pc = "absent" /\ lg_pc = "absent"
    /\ hb_closed = TRUE /\ gen_closed = TRUE
    /\ \/ /\ cap \in 1..MaxCap
          /\ gen_ch \in PreloadedValues
          /\ Len(gen_ch) <= cap
          /\ hb_ch \in { Iota(t) : t \in 0..MaxPreTicks }
       \/ /\ cap = Len(<<0, 1, 2, 3, 4, 5>>)
          /\ gen_ch = <<0, 1, 2, 3, 4, 5>>
          /\ hb_ch = <<0>>
    /\ slots = {}
    /\ hb_sent = hb_ch /\ gen_sent = gen_ch

NextWT == Worker \/ ExternalShutdown

SpecWT == InitWT /\ [][NextWT]_vars

LiveSpecWT == SpecWT /\ WF_vars(Worker) /\ WF_vars(ExternalShutdown)

\* C10: the final drain does not need ticks. With both inputs pre-loaded and
\* closed, Worker stops, and when it has stopped its output holds classify(v)
\* for every pre-loaded v in input order, whatever the number of ticks.
C10_FinalDrainNeedsNoTick ==
    /\ <>(wk_pc = "done")
    /\ [](wk_pc = "done" =>
            /\ log_ch = MapClassify(gen_sent)
            /\ gen_ch = <<>> /\ hb_ch = <<>>
            /\ panicked = {})

FizzBuzz == [tag |-> "FizzBuzz", v |-> 0]
Fizz == [tag |-> "Fizz", v |-> 0]
Buzz == [tag |-> "Buzz", v |-> 0]
Value(x) == [tag |-> "Value", v |-> x]

\* the scenario of test_worker: ticks [0], values [0..5]
C10_Witness ==
    /\ wk_pc = "done" /\ hb_sent = <<0>>
    /\ log_ch = <<FizzBuzz, Value(1), Value(2), Fizz, Value(4), Buzz>>

\* no tick at all and yet the values were forwarded
C10_WitnessNoTick ==
    wk_pc = "done" /\ hb_sent = <<>> /\ Len(log_ch) >= 2 /\ ticks_taken = <<>>

\* ------------------------------------------------------------ tick gating

\* C11: tick gating of batches. While no shutdown is requested, Worker takes an
\* item from the generator channel and sends it on only in an iteration in
\* which it has taken a tick; a tick is taken only at the head of an iteration
\* that has none yet; so before a shutdown request the values Worker has taken
\* are at most one channel-full per tick consumed, and none without a tick.
C11_TickGating ==
    /\ [][ /\ (wk_pc = "batch" /\ wk_pc' = "forward" /\ ~shutdown) => wk_gotTick
           /\ (wk_pc = "forward" /\ log_ch' # log_ch /\ ~shutdown) => wk_gotTick
           /\ (ticks_taken' # ticks_taken) =>
                  /\ wk_pc = "take" /\ ~wk_gotTick /\ wk_gotTick'
                  /\ Len(ticks_taken') = Len(ticks_taken) + 1
         ]_vars
    /\ [](~shutdown => Len(wk_taken) <= Len(ticks_taken) * cap)

\* two values had accumulated in the generator channel and go out on one tick
C11_Witness ==
    ~shutdown /\ wk_pc = "forward" /\ wk_gotTick /\ wk_items = 2 /\ Len(ticks_taken) = 1

\* ----------------------------------------------------------- channel bound

\* C12: channel bound. The fill of each of the three channels is always
\* between 0 and the capacity; a send tried on a full channel leaves the
\* channel as it was; marking a channel closed leaves its items in place, and
\* the consumer's take on a closed channel still returns the oldest item.
C12_ChannelBound ==
    /\ [](/\ Len(hb_ch) \in 0..cap /\ Len(gen_ch) \in 0..cap /\ Len(log_ch) \in 0..cap)
    /\ [][ /\ (hb_pc = "send" /\ hb_pc' # "send" /\ Len(hb_ch) = cap) => hb_ch' = hb_ch
           /\ (gen_pc = "send" /\ gen_pc' # "send" /\ Len(gen_ch) = cap) => gen_ch' = gen_ch
           /\ (wk_pc = "forward" /\ wk_pc' # "forward" /\ Len(log_ch) = cap) =>
                  log_ch' = log_ch
           /\ (~hb_closed /\ hb_closed') => hb_ch' = hb_ch
           /\ (~gen_closed /\ gen_closed') => gen_ch' = gen_ch
           /\ (~log_closed /\ log_closed') => log_ch' = log_ch
           /\ (hb_closed /\ hb_ch # <<>> /\ wk_pc = "take" /\ wk_pc' # "take") =>
                  hb_ch' = Tail(hb_ch) /\ ticks_taken' = Append(ticks_taken, Head(hb_ch))
           /\ (gen_closed /\ gen_ch # <<>> /\ wk_pc = "batch" /\ wk_pc' = "forward") =>
                  gen_ch' = Tail(gen_ch) /\ wk_taken' = Append(wk_taken, Head(gen_ch))
           /\ (log_closed /\ log_ch # <<>> /\ lg_pc = "drain" /\ logged' # logged) =>
                  log_ch' = Tail(log_ch) /\ logged' = Append(logged, Head(log_ch))
         ]_vars

\* a send on the full tick channel was turned down, the channel was then closed
\* with all its ticks in it, and Worker is about to take from it
C12_Witness ==
    "hb" \in panicked /\ hb_closed /\ Len(hb_ch) = cap /\ wk_pc = "take"

\* ------------------------------------------------- crash and restart

\* (mutant) the initialising closure runs at every lock
HbLockAlwaysInit ==
    /\ hb_pc = "start"
    /\ hb_count' = 0
    /\ slots' = slots \cup {"hb"}
    /\ hb_pc' = "loop"
    /\ UNCHANGED <<crashed, cap, beats, shutdown, periods, chans, hb_timer, hb_fullAtPeriod,
                   hb_sent, genv, wkv, lgv, lateSend, panicked>>

\* let mut state = state.lock(|| HeartbeatState{ count: 0}).await
\* the closure runs only if the slot holds no state yet
HbLock ==
    /\ hb_pc = "start"
    /\ IF "hb" \in slots
         THEN UNCHANGED <<hb_count, slots>>
         ELSE /\ hb_count' = 0
              /\ slots' = slots \cup {"hb"}
    /\ hb_pc' = "loop"
    /\ UNCHANGED <<crashed, cap, beats, shutdown, periods, chans, hb_timer, hb_fullAtPeriod,
                   hb_sent, genv, wkv, lgv, lateSend, panicked>>

\* let mut state = state.lock(|| GeneratorState {value: 0}).await
GenLock ==
    /\ gen_pc = "start"
    /\ IF "gen" \in slots
         THEN UNCHANGED <<gen_value, slots>>
         ELSE /\ gen_value' = 0
              /\ slots' = slots \cup {"gen"}
    /\ gen_pc' = "loop"
    /\ UNCHANGED <<crashed, cap, beats, shutdown, periods, chans, hbv, gen_sent, gen_blocked,
                   wkv, lgv, lateSend, panicked>>

HasCrashed(a) == \E c \in crashed : c[1] = a

\* Heartbeat panics somewhere in its loop; the graph runs the same slot again
\* with the clone of the state it kept (once per run here)
HbCrash ==
    /\ hb_pc \in {"loop", "wait", "send", "beats"}
    /\ ~HasCrashed("hb")
    /\ crashed' = crashed \cup {<<"hb", hb_count>>}
    /\ hb_pc' = "start"
    /\ hb_timer' = FALSE /\ hb_fullAtPeriod' = FALSE
    /\ UNCHANGED <<slots, cap, beats, shutdown, periods, chans, hb_count, hb_sent,
                   genv, wkv, lgv, lateSend, panicked>>

\* the same for Generator
GenCrash ==
    /\ gen_pc \in {"loop", "send", "room"}
    /\ ~HasCrashed("gen")
    /\ crashed' = crashed \cup {<<"gen", gen_value>>}
    /\ gen_pc' = "start"
    /\ UNCHANGED <<slots, cap, beats, shutdown, periods, chans, hbv, gen_value, gen_sent,
                   gen_blocked, wkv, lgv, lateSend, panicked>>

\* build_graph + graph.start() seen from before the first lock: new_state() has
\* made the two slots and neither holds a value
InitRestart ==
    /\ InitCommon
    /\ cap \in 1..MaxCap
    /\ beats \in 0..MaxBeats
    /\ hb_ch = <<>> /\ hb_closed = FALSE
    /\ gen_ch = <<>> /\ gen_closed = FALSE
    /\ hb_pc = "start" /\ gen_pc = "start" /\ lg_pc = "loop"
    /\ slots = {}
    /\ hb_sent = <<>> /\ gen_sent = <<>>

\* the pipeline left alone (no external controller), with crashes
NextRestart == NextSelf \/ HbLock \/ GenLock \/ HbCrash \/ GenCrash

SpecRestart == InitRestart /\ [][NextRestart]_vars

\* C13: persistent state survives restart. Through a crash and restart of
\* Heartbeat or Generator the counter read back at the lock is the one of the
\* last mutation: a lock on a slot that holds state leaves the counter alone,
\* the counter never falls behind its value at the crash, and the ticks and
\* values emitted are still 0, 1, 2, ... without a second 0. A step that
\* changes one of the two counters leaves the other alone.
C13_StateSurvivesRestart ==
    /\ [](/\ hb_sent = Iota(hb_count)
          /\ gen_sent = Iota(gen_value)
          /\ \A c \in crashed : /\ (c[1] = "hb" => hb_count >= c[2])
                                 /\ (c[1] = "gen" => gen_value >= c[2]))
    /\ [][ /\ (hb_pc = "start" /\ hb_pc' = "loop" /\ "hb" \in slots) =>
                  hb_count' = hb_count
           /\ (gen_pc = "start" /\ gen_pc' = "loop" /\ "gen" \in slots) =>
                  gen_value' = gen_value
           /\ (hb_count' # hb_count) => gen_value' = gen_value
           /\ (gen_value' # gen_value) => hb_count' = hb_count
         ]_vars

\* both actors crashed with counter 1 and went on with 1 after the restart
C13_Witness ==
    /\ <<"hb", 1>> \in crashed /\ hb_sent = <<0, 1>>
    /\ <<"gen", 1>> \in crashed /\ gen_sent = <<0, 1>>

\* ------------------------------------------------------------------- sink

\* C14: Logger is a complete sink. Logger leaves its take loop only on an empty
\* input; what it records is the head of its input, unchanged, so its record is
\* always a prefix of what Worker classified, in order; it leaves its main
\* loop only on a closed and empty input, and when it has stopped it has
\* recorded every message Worker placed in the channel.
C14_LoggerCompleteSink ==
    /\ [][ /\ (lg_pc = "drain" /\ lg_pc' # "drain") => log_ch = <<>>
           /\ (logged' # logged) =>
                  /\ lg_pc = "drain" /\ log_ch # <<>>
                  /\ logged' = Append(logged, Head(log_ch))
                  /\ log_ch' = Tail(log_ch)
           /\ Leaves(lg_pc, lg_pc') => log_closed /\ log_ch = <<>>
         ]_vars
    /\ [](/\ IsPrefix(logged, MapClassify(wk_taken))
          /\ (lg_pc = "done" => wk_item = NoItem /\ logged = MapClassify(wk_taken)))

\* Logger is in its take loop on a closed input with one message recorded and
\* more to take
C14_Witness ==
    lg_pc = "drain" /\ log_closed /\ Len(logged) >= 1 /\ Len(log_ch) = 2

\* --------------------------------------------- the bounded channel by itself

\* A channel as one value: its buffer and its closed flag (capacity: cap).
Chan(buf, closed) == [buf |-> buf, closed |-> closed]

\* (mutant) closing a channel that is already closed throws its items away
MarkClosedDropsOnReclose(c) ==
    IF c.closed THEN [c EXCEPT !.buf = <<>>] ELSE [c EXCEPT !.closed = TRUE]

\* mark_closed(): sets the closed flag
MarkClosed(c) == [c EXCEPT !.closed = TRUE]

\* try_send(item) -> Sent | Rejected(item): rejected when full, and when closed
TrySend(c, item) ==
    IF c.closed \/ Len(c.buf) >= cap
      THEN [ch |-> c, sent |-> FALSE]
      ELSE [ch |-> [c EXCEPT !.buf = Append(@, item)], sent |-> TRUE]

\* try_take() -> Option<item>: nothing if empty
TryTake(c) ==
    IF c.buf = <<>>
      THEN [ch |-> c, item |-> NoItem]
      ELSE [ch |-> [c EXCEPT !.buf = Tail(@)], item |-> Some(Head(c.buf))]

ChIsClosedAndEmpty(c) == IsClosedAndEmpty(c.buf, c.closed)

\* One channel (the variables of the tick channel) driven by arbitrary calls;
\* no actor runs. hb_sent records what was accepted, ticks_taken what was taken.
InitCh ==
    /\ InitCommon
    /\ cap \in 1..MaxCap
    /\ beats = 0
    /\ hb_pc = "absent" /\ gen_pc = "absent" /\ lg_pc = "absent"
    /\ hb_ch = <<>> /\ hb_closed = FALSE
    /\ gen_ch = <<>> /\ gen_closed = FALSE
    /\ slots = {}
    /\ hb_sent = <<>> /\ gen_sent = <<>>

ChSet(c) == hb_ch' = c.buf /\ hb_closed' = c.closed

ChMarkClosed ==
    /\ ChSet(MarkClosed(Chan(hb_ch, hb_closed)))
    /\ UNCHANGED <<sup, cap, beats, shutdown, periods, gen_ch, gen_closed, log_ch, log_closed,
                   hbv, genv, wkv, lgv, lateSend, panicked>>

ChTrySend ==
    /\ Len(hb_sent) <= MaxPreTicks
    /\ \E item \in 0..MaxValue :
          LET r == TrySend(Chan(hb_ch, hb_closed), item) IN
            /\ ChSet(r.ch)
            /\ hb_sent' = IF r.sent THEN Append(hb_sent, item) ELSE hb_sent
    /\ UNCHANGED <<sup, cap, beats, shutdown, periods, gen_ch, gen_closed, log_ch, log_closed,
                   hb_pc, hb_count, hb_timer, hb_fullAtPeriod, genv, wkv, lgv, lateSend,
                   panicked>>

ChTryTake ==
    /\ LET r == TryTake(Chan(hb_ch, hb_closed)) IN
          /\ ChSet(r.ch)
          /\ ticks_taken' = ticks_taken \o r.item
    /\ UNCHANGED <<wk_vetoed, wk_cut, sup, cap, beats, shutdown, periods, gen_ch, gen_closed,
                   log_ch, log_closed, hbv, genv, wk_pc, wk_clean, wk_avail, wk_items,
                   wk_item, wk_gotTick, wk_taken, lgv, lateSend, panicked>>

NextCh == ChMarkClosed \/ ChTrySend \/ ChTryTake

SpecCh == InitCh /\ [][NextCh]_vars

\* C15: idempotent close. For the channel in any state, closing it twice gives
\* the same channel as closing it once, with the buffered items as they were;
\* after either, try_send is rejected for every item, try_take returns the
\* oldest buffered item (nothing if there is none) and is_closed_and_empty is
\* true exactly when the buffer was empty.
C15_IdempotentClose ==
    LET c == Chan(hb_ch, hb_closed)
        once == MarkClosed(c)
        twice == MarkClosed(MarkClosed(c))
    IN  /\ twice = once
        /\ once.buf = c.buf /\ twice.buf = c.buf
        /\ \A item \in 0..MaxValue :
              /\ TrySend(twice, item) = TrySend(once, item)
              /\ ~TrySend(twice, item).sent
        /\ TryTake(twice) = TryTake(once)
        /\ TryTake(twice).item = (IF c.buf = <<>> THEN NoItem ELSE Some(Head(c.buf)))
        /\ ChIsClosedAndEmpty(twice) = ChIsClosedAndEmpty(once)
        /\ ChIsClosedAndEmpty(twice) = (c.buf = <<>>)

\* a closed channel with two items still buffered and one taken
C15_Witness ==
    hb_closed /\ Len(hb_ch) = 2 /\ Len(ticks_taken) = 1 /\ hb_pc = "absent" /\ wk_pc = "loop"

\* ---------------------------------------------------------- classification

\* message m is the right class for value v
ClassOf(m, v) ==
    /\ m \in {FizzBuzz, Fizz, Buzz, Value(v)}
    /\ (m = FizzBuzz) = (v % 15 = 0)
    /\ (m = Fizz) = (v % 3 = 0 /\ v % 5 # 0)
    /\ (m = Buzz) = (v % 5 = 0 /\ v % 3 # 0)
    /\ (m = Value(v)) = (v % 3 # 0 /\ v % 5 # 0)

\* C16: classification correctness. For every value v in 0..MaxClassify,
\* FizzBuzzMessage::new(v) is FizzBuzz iff v % 15 = 0, Fizz iff v is a multiple
\* of 3 and not of 5, Buzz iff a multiple of 5 and not of 3, Value(v) otherwise
\* (0 is FizzBuzz); and each message Worker has put in its output is the class
\* of the pre-loaded value at the same position.
C16_ClassificationCorrect ==
    /\ \A v \in 0..MaxClassify : ClassOf(Classify(v), v)
    /\ Classify(0) = FizzBuzz
    /\ \A i \in 1..Len(log_ch) : ClassOf(log_ch[i], gen_sent[i])

\* Worker has classified 0..5: one message of each of the four kinds
C16_Witness ==
    /\ Len(log_ch) = 6 /\ gen_sent = <<0, 1, 2, 3, 4, 5>>
    /\ log_ch[1] = FizzBuzz /\ log_ch[2] = Value(1) /\ log_ch[4] = Fizz /\ log_ch[6] = Buzz

\* ------------------------------------------------- Heartbeat's assertion

\* C17: Heartbeat's send assertion always holds. In every reachable state,
\* whatever ended the wait, no try_send of Heartbeat has been turned down: the
\* assertion "unable to send" has never failed.
C17_SendAssertionHolds ==
    "hb" \notin panicked

\* ------------------------------------------- side effects of the veto closure

\* C18 as stated: the mark_closed of the veto closure is unconditional. Every
\* evaluation of an actor's closure after a shutdown request leaves the actor's
\* output closed, also when the actor vetoes.
C18_CloseAtEveryEvaluation ==
    [][ /\ (shutdown /\ hb_pc = "loop" /\ hb_pc' # "loop") => hb_closed'
        /\ (shutdown /\ gen_pc = "loop" /\ gen_pc' # "loop") => gen_closed'
        /\ (shutdown /\ wk_pc = "loop" /\ wk_pc' # "loop") => log_closed'
      ]_vars

\* C18 as the code has it: the closures of Heartbeat and Generator are the
\* mark_closed alone, so every evaluation after a request closes the output
\* (and accepts). In Worker's closure mark_closed is the last of three
\* conjuncts: an evaluation closes the output exactly when both inputs are
\* closed and empty, and that evaluation accepts; after a veto the output is
\* still open.
C18_CloseOnlyWhenAccepting ==
    /\ [][ /\ (shutdown /\ hb_pc = "loop" /\ hb_pc' # "loop") => hb_closed'
           /\ (shutdown /\ gen_pc = "loop" /\ gen_pc' # "loop") => gen_closed'
           /\ (shutdown /\ wk_pc = "loop" /\ wk_pc' # "loop") =>
                  /\ log_closed' = WkVeto
                  /\ (wk_pc' = "done") = WkVeto
           /\ (~log_closed /\ log_closed') => Leaves(wk_pc, wk_pc')
         ]_vars
    /\ [](wk_vetoed => ~log_closed /\ wk_pc = "wait")

\* Worker has vetoed a request with values still to forward; its output is open
C18_Witness ==
    wk_vetoed /\ shutdown /\ ~log_closed /\ gen_ch # <<>> /\ hb_closed /\ gen_closed

\* ----------------------------------------------------- the batch of Worker

\* C19: Worker's batch is safe under concurrency. The count n is fixed when
\* the batch begins and only counts down, one per send; with Generator adding
\* and Logger removing at any moment, every take of the batch finds an item
\* and every send finds a vacant slot, the batch ends only at count 0, and
\* neither "internal error" expect has ever failed.
C19_BatchSafe ==
    /\ []("wk" \notin panicked)
    /\ [](wk_pc = "batch" => wk_items <= Len(gen_ch) /\ wk_items <= VacantUnits(log_ch))
    /\ [](wk_pc = "forward" =>
             /\ wk_item # NoItem /\ wk_items >= 1
             /\ wk_items - 1 <= Len(gen_ch) /\ wk_items <= VacantUnits(log_ch))
    /\ [][ /\ (wk_pc = "batch" /\ wk_pc' # "batch") =>
                  IF wk_items = 0 THEN wk_pc' = "loop"
                  ELSE wk_pc' = "forward" /\ wk_item' = Some(Head(gen_ch))
           /\ (wk_pc = "forward" /\ wk_pc' # "forward") =>
                  /\ wk_pc' = "batch" /\ wk_items' = wk_items - 1
                  /\ log_ch' = Append(log_ch, Classify(wk_item[1]))
           /\ (wk_items' # wk_items) =>
                  wk_pc = "vacant" \/ (wk_pc = "forward" /\ wk_items' = wk_items - 1)
         ]_vars

\* in the middle of a batch of two, its first item taken: Generator has pushed
\* a value into the full channel since the count was taken
C19_Witness ==
    wk_pc = "forward" /\ wk_items = 2 /\ Len(gen_ch) = 2 /\ cap = 2

\* ---------------------------------------------------------- leftover items

\* C20 as stated: leftover items resume on tick or vacancy. After a batch was
\* cut short by the vacant slots of the output, a vacant slot in the output is
\* enough for Worker's wait to end while items are in the generator channel.
C20_VacancyAloneWakesWorker ==
    (wk_cut /\ wk_pc = "wait" /\ gen_ch # <<>> /\ VacantUnits(log_ch) >= 1) =>
        ENABLED WkAwait

\* C20 as the code has it: Worker's wait ends exactly when a shutdown has been
\* requested or a tick, a generator item and a vacant output slot are all
\* there; leftover items and a new vacancy without a tick do not end it.
C20_ResumeNeedsTickOrShutdown ==
    wk_pc = "wait" =>
        (ENABLED WkAwait) =
            (shutdown \/ (Len(hb_ch) >= 1 /\ Len(gen_ch) >= 1 /\ VacantUnits(log_ch) >= 1))

\* a batch was cut short, Logger has since made room, and Worker waits with the
\* leftover item: no tick, no shutdown request
C20_Witness ==
    /\ wk_cut /\ ~shutdown /\ wk_pc = "wait"
    /\ gen_ch # <<>> /\ VacantUnits(log_ch) >= 1 /\ hb_ch = <<>>

\* ------------------------------------------------------------ clean waits

\* C21: a clean wait implies work. Worker's wait comes back clean only with a
\* tick, a generator item and a vacant output slot all there, and not clean
\* only after a shutdown request; the three still hold at each later step of
\* the iteration that reads them, so a clean iteration takes one tick, counts
\* at least one item for its batch, and each counted item is taken and sent.
C21_CleanWaitImpliesWork ==
    /\ [][ /\ (wk_pc = "wait" /\ wk_pc' = "take" /\ wk_clean') => WkAllMet
           /\ (wk_pc = "wait" /\ wk_pc' = "take" /\ ~wk_clean') => shutdown
           /\ (wk_pc = "take" /\ wk_pc' # "take" /\ wk_clean) =>
                  /\ wk_pc' = "avail" /\ wk_gotTick'
                  /\ ticks_taken' = Append(ticks_taken, Head(hb_ch))
           /\ (wk_pc = "vacant" /\ wk_pc' = "batch" /\ wk_clean) =>
                  wk_gotTick /\ wk_items' >= 1
           /\ (wk_pc = "batch" /\ wk_pc' # "batch" /\ wk_items >= 1) => wk_pc' = "forward"
           /\ (wk_pc = "forward" /\ wk_pc' # "forward") =>
                  log_ch' = Append(log_ch, Classify(wk_item[1]))
         ]_vars
    /\ [](wk_pc = "take" /\ wk_clean => WkAllMet)
    /\ [](wk_pc = "avail" /\ wk_clean =>
             wk_gotTick /\ AvailUnits(gen_ch) >= 1 /\ VacantUnits(log_ch) >= 1)
    /\ [](wk_pc = "vacant" /\ wk_clean => wk_avail >= 1 /\ VacantUnits(log_ch) >= 1)

\* a clean wait during a shutdown: the tick is taken and two items were counted
C21_Witness ==
    wk_pc = "vacant" /\ wk_clean /\ wk_gotTick /\ wk_avail = 2 /\ shutdown

\* ------------------------------------------------------ one tick per period

\* C22: one tick per period. A tick enters the channel only in an iteration
\* whose periodic timer has resolved; none is emitted in an iteration whose
\* wait was cut short by a shutdown request; so the ticks emitted never
\* outnumber the periods elapsed.
C22_OneTickPerPeriod ==
    /\ [][ (hb_sent' # hb_sent) => hb_timer ]_vars
    /\ [](Len(hb_sent) <= periods)

\* -------------------------------------------------- count coupled to the send

\* C23: Heartbeat's count is coupled to the send. The count moves only in the
\* step whose send was accepted, and then by one, so between iterations it
\* equals the number of ticks enqueued; an iteration that fails at the send
\* (assertion panic) leaves the count as it was; and after the restart the
\* tick with that same value is sent, so no value is skipped or sent twice.
C23_CountCoupledToSend ==
    /\ [][ /\ (hb_count' # hb_count) =>
                  /\ hb_pc = "send" /\ hb_pc' = "beats"
                  /\ hb_sent' = Append(hb_sent, hb_count)
                  /\ hb_count' = hb_count + 1
           /\ (hb_sent' # hb_sent) => (hb_count' = hb_count + 1)
           /\ ("hb" \in panicked' /\ "hb" \notin panicked) =>
                  (hb_count' = hb_count /\ hb_sent' = hb_sent)
         ]_vars
    /\ [](hb_pc \in {"loop", "wait", "send", "done"} => hb_count = Len(hb_sent))
    /\ [](\A i \in 1..Len(hb_sent) : hb_sent[i] = i - 1)
    /\ \A k \in 0..MaxPeriods :
          ("hb" \in panicked /\ hb_count = k) ~> (Len(hb_sent) > k)

\* ------------------------------------------------ closure goes downstream

\* C24: closure propagates downstream in order. Whenever the Worker-to-Logger
\* channel is marked closed, the heartbeat channel and the generator channel
\* are both closed and empty; and whenever the heartbeat or the generator
\* channel is marked closed, a shutdown request has been raised.
C24_ClosureInOrder ==
    /\ log_closed => /\ IsClosedAndEmpty(hb_ch, hb_closed)
                     /\ IsClosedAndEmpty(gen_ch, gen_closed)
    /\ (hb_closed \/ gen_closed) => shutdown

\* Worker has closed its output after forwarding values that Logger has yet
\* to take; ticks and values went through the two input channels before
C24_Witness ==
    /\ log_closed /\ wk_pc = "done" /\ log_ch # <<>>
    /\ hb_sent # <<>> /\ Len(gen_sent) >= 2

====
